---- MODULE Spec2Model ----
(***************************************************************************)
(* The two POWDER profile scripts of this repository as one state machine: *)
(*   "otalab"  = src/profiles/srslte-otalab.py                             *)
(*   "general" = src/profile.py                                            *)
(* A run binds the parameters, (OTA lab only) checks the frequency pairs,  *)
(* verifies, builds the request resource by resource and prints it.        *)
(*                                                                         *)
(* Frequencies are BANDWIDTH parameters in MHz, "rounded to the nearest    *)
(* kilohertz"; the model holds them as integers in kHz.                    *)
(* The in-memory request is a sequence of resources in creation order; an  *)
(* object reference (a Link's interface, an interface's node) is the       *)
(* position of the object in that sequence.                                *)
(***************************************************************************)
EXTENDS Integers, Sequences, FiniteSets, TLC

VARIABLES profile, pc, params, errors, request, idx, output

vars == <<profile, pc, params, errors, request, idx, output>>

(***************************************************************************)
(* Bounds of the model                                                     *)
(***************************************************************************)
\* longest list of selections of either kind
MaxSel == 2
\* runs of a script on the same parameter values that are compared
MaxRuns == 2

(***************************************************************************)
(* Constants of the scripts                                                *)
(***************************************************************************)
Profiles == {"otalab", "general"}

\* kHz in one MHz: the unit of the model's frequencies
MHz == 1000

BAND_MIN == 3358 * MHz
BAND_MAX == 3600 * MHz
MIN_SEPARATION == 1 * MHz

ULDEFLOFREQ == 3550 * MHz
ULDEFHIFREQ == 3570 * MHz
DLDEFLOFREQ == 3580 * MHz
DLDEFHIFREQ == 3600 * MHz

BIN_PATH == "/local/repository/bin"
DEFAULT_SRSRAN_HASH == "release_22_04"
SRSLTE_IMG == "urn:publicid:IDN+emulab.net+image+PowderTeam:U18LL-SRSLTE"
UBUNTU_IMG == "urn:publicid:IDN+emulab.net+image+emulab-ops:UBUNTU18-64-STD"
MNGR_ID == "urn:publicid:IDN+emulab.net+authority+cm"
SRS_DEPLOY_SCRIPT == BIN_PATH \o "/deploy-srs.sh"

NAT_SCRIPT == "/local/repository/bin/add-nat-and-ip-forwarding.sh"
CONFIG_SCRIPT == "/local/repository/bin/update-config-files.sh"
TUNE_CPU_SCRIPT == "/local/repository/bin/tune-cpu.sh"
TUNE_SDR_SCRIPT == "/local/repository/bin/tune-sdr-iface.sh"
SETUP_SCRIPT == "/local/repository/bin/setup.sh"

USRP_IF == "usrp_if"
USRP_ADDRESS == "192.168.40.1"
USRP_NETMASK == "255.255.255.0"
LINK_BANDWIDTH == 10 * 1000 * 1000

\* an attribute the script never sets
None == "None"

UL_PAIR == <<"ul_freq_min", "ul_freq_max">>
DL_PAIR == <<"dl_freq_min", "dl_freq_max">>
UL_BAND_MSG == "CBAND uplink frequencies must be between 3358 and 3600 MHz"
DL_BAND_MSG == "CBAND downlink frequencies must be between 3358 and 3600 MHz"
SEPARATION_MSG == "Minimum and maximum frequencies must be separated by at least 1 MHz"

(***************************************************************************)
(* The values a user can give to the parameters                            *)
(***************************************************************************)
node_type == {"d740", "d430"}

\* the first names of each enumerated choice
lab_x310_names == {"ota-x310-1", "ota-x310-2"}
ota_b210_names == {"ota-nuc1", "ota-nuc2"}
rooftop_names == {"cellsdr1-browning", "cellsdr1-bes"}
fixed_endpoint_aggregates == {"web", "bookstore"}

\* token, user, password of the general profile
Credentials == {<<"", "", "">>, <<"ghp_token", "dockeruser", "secret">>}

\* the edges of the band, one kHz outside them, and one MHz above the low edge
FreqValues == {BAND_MIN - 1, BAND_MIN, BAND_MIN + MIN_SEPARATION, BAND_MAX, BAND_MAX + 1}

\* <<ul_freq_min, ul_freq_max, dl_freq_min, dl_freq_max>> of named scenarios
FreqScenarios ==
    { <<ULDEFLOFREQ, ULDEFHIFREQ, DLDEFLOFREQ, DLDEFHIFREQ>>,
      <<2500 * MHz, 2510 * MHz, 2620 * MHz, 2630 * MHz>>,
      <<3550 * MHz, 3550 * MHz + 500, DLDEFLOFREQ, DLDEFHIFREQ>>,
      <<ULDEFLOFREQ, ULDEFHIFREQ, 3700 * MHz, 3750 * MHz>>,
      <<3550 * MHz, 3550 * MHz + 999, 3599 * MHz + 1, BAND_MAX>> }

FreqInputs == (FreqValues \X FreqValues \X FreqValues \X FreqValues) \cup FreqScenarios

\* the ordered lists of at most MaxSel selections, each a struct with one member
SelLists(member, names) ==
    UNION { [1..n -> {[m \in {member} |-> v] : v \in names}] : n \in 0..MaxSel }

(***************************************************************************)
(* geni-lib objects, as far as the scripts use them                        *)
(***************************************************************************)
EmptyRequest == [resources |-> <<>>, spectrum |-> <<>>]

\* rspec.Execute(shell="bash", command=...): the command's words, joined by " "
Execute(words) == [shell |-> "bash", command |-> words]

IPv4Address(address, netmask) == [address |-> address, netmask |-> netmask]

ParameterError(message, names) == [message |-> message, params |-> names]

\* request.Link(name): a new Link, added to the request
NewLink(name) ==
    [kind |-> "Link", client_id |-> name, bandwidth |-> None, interfaces |-> <<>>]

\* request.RawPC(name): a new node, added to the request
NewRawPC(name) ==
    [kind |-> "RawPC", client_id |-> name, hardware_type |-> None,
     disk_image |-> None, component_id |-> None, component_manager_id |-> None,
     services |-> <<>>, interfaces |-> <<>>]

addService(node, service) == [node EXCEPT !.services = Append(@, service)]

\* node.addInterface(name): the node with one more interface, without address
addInterface(node, name) ==
    [node EXCEPT !.interfaces =
        Append(@, [name |-> node.client_id \o ":" \o name, addresses |-> <<>>])]

\* intf.addAddress(address) on the node's last interface
addAddress(node, address) ==
    [node EXCEPT !.interfaces[Len(node.interfaces)].addresses = Append(@, address)]

\* link.addInterface(intf): a reference to interface number ifpos of the node at
\* position nodepos of the request
linkAddInterface(link, nodepos, ifpos) ==
    [link EXCEPT !.interfaces = Append(@, [node |-> nodepos, intf |-> ifpos])]

\* a requestSpectrum that takes the bounds in the other order
requestSpectrum_swapped(req, lo, hi, power) ==
    [req EXCEPT !.spectrum = Append(@, <<hi, lo, power>>)]

requestSpectrum(req, lo, hi, power) ==
    [req EXCEPT !.spectrum = Append(@, <<lo, hi, power>>)]

(***************************************************************************)
(* The builders                                                            *)
(***************************************************************************)
\* a radio link named without the index of the selection
radio_link_unindexed(i) ==
    [NewLink("radio-link") EXCEPT !.bandwidth = LINK_BANDWIDTH]

\* radio_link = request.Link("radio-link-%d"%(idx)) and its bandwidth
radio_link(i) ==
    [NewLink("radio-link-" \o ToString(i)) EXCEPT !.bandwidth = LINK_BANDWIDTH]

\* the interface of a compute node towards its radio, left without address
usrp_interface_no_address(node) == addInterface(node, USRP_IF)

\* the interface of a compute node towards its radio, and its address
usrp_interface(node) ==
    addAddress(addInterface(node, USRP_IF), IPv4Address(USRP_ADDRESS, USRP_NETMASK))

\* the addService calls of x310_node_pair in the OTA lab profile
otalab_x310_services(node) ==
    LET node1 == addService(node, Execute(<<NAT_SCRIPT>>))
        node2 == addService(node1, Execute(<<TUNE_CPU_SCRIPT>>))
        node3 == addService(node2, Execute(<<TUNE_SDR_SCRIPT>>))
        cmd == <<SRS_DEPLOY_SCRIPT, DEFAULT_SRSRAN_HASH>>
    IN  addService(node3, Execute(cmd))

\* the services of the general profile with the deployment before the tuning
general_x310_services_deploy_first(node, token, user, password) ==
    LET node1 == addService(node, Execute(<<NAT_SCRIPT>>))
        node2 == addService(node1, Execute(<<CONFIG_SCRIPT>>))
        node3 == addService(node2, Execute(<<SETUP_SCRIPT, token, user, password>>))
        node4 == addService(node3, Execute(<<TUNE_CPU_SCRIPT>>))
    IN  addService(node4, Execute(<<TUNE_SDR_SCRIPT>>))

\* the addService calls of x310_node_pair in the general profile
general_x310_services(node, token, user, password) ==
    LET node1 == addService(node, Execute(<<NAT_SCRIPT>>))
        node2 == addService(node1, Execute(<<CONFIG_SCRIPT>>))
        node3 == addService(node2, Execute(<<TUNE_CPU_SCRIPT>>))
        node4 == addService(node3, Execute(<<TUNE_SDR_SCRIPT>>))
    IN  addService(node4, Execute(<<SETUP_SCRIPT, token, user, password>>))

\* radio_link.addInterface(node_radio_if), then radio_link.addNode(radio), which
\* makes a new interface on the radio and adds it to the link; the result is
\* <<link, node, radio>>, the node at position nodepos of the request and the
\* radio at position radiopos
connect_pair(link, node, nodepos, radio, radiopos) ==
    LET link1 == linkAddInterface(link, nodepos, Len(node.interfaces))
        radio1 == addInterface(radio, "if0")
        link2 == linkAddInterface(link1, radiopos, Len(radio1.interfaces))
    IN  <<link2, node, radio1>>

\* x310_node_pair(idx, x310_radio) of the OTA lab profile, on the request req
\* under the bound parameters p
otalab_x310_node_pair(req, i, x310_radio, p) ==
    LET linkpos == Len(req.resources) + 1
        nodepos == linkpos + 1
        radiopos == nodepos + 1
        node0 == [NewRawPC(x310_radio.radio_name \o "-comp") EXCEPT
                    !.hardware_type = p.x310_pair_nodetype,
                    !.disk_image = SRSLTE_IMG,
                    !.component_manager_id = MNGR_ID]
        node == usrp_interface(otalab_x310_services(node0))
        radio == [NewRawPC(x310_radio.radio_name \o "-radio") EXCEPT
                    !.component_id = x310_radio.radio_name,
                    !.component_manager_id = MNGR_ID]
    IN  [req EXCEPT !.resources =
            @ \o connect_pair(radio_link(i), node, nodepos, radio, radiopos)]

\* x310_node_pair(idx, x310_radio, token, user, password) of the general profile
general_x310_node_pair(req, i, x310_radio, p) ==
    LET linkpos == Len(req.resources) + 1
        nodepos == linkpos + 1
        radiopos == nodepos + 1
        node0 == [NewRawPC(x310_radio.radio_name \o "-comp") EXCEPT
                    !.hardware_type = p.x310_pair_nodetype,
                    !.disk_image = UBUNTU_IMG,
                    !.component_manager_id = MNGR_ID]
        node == usrp_interface(
                    general_x310_services(node0, p.token, p.user, p.password))
        radio == [NewRawPC(x310_radio.radio_name \o "-x310") EXCEPT
                    !.component_id = x310_radio.radio_name,
                    !.component_manager_id = MNGR_ID]
    IN  [req EXCEPT !.resources =
            @ \o connect_pair(radio_link(i), node, nodepos, radio, radiopos)]

\* the addService calls of b210_nuc_pair in the OTA lab profile
otalab_b210_services(node) ==
    LET node1 == addService(node, Execute(<<CONFIG_SCRIPT>>))
        node2 == addService(node1, Execute(<<TUNE_CPU_SCRIPT>>))
        cmd == <<SRS_DEPLOY_SCRIPT, DEFAULT_SRSRAN_HASH>>
    IN  addService(node2, Execute(cmd))

\* the addService calls of b210_nuc_pair in the general profile
general_b210_services(node, token, user, password) ==
    LET node1 == addService(node, Execute(<<CONFIG_SCRIPT>>))
        node2 == addService(node1, Execute(<<TUNE_CPU_SCRIPT>>))
    IN  addService(node2, Execute(<<SETUP_SCRIPT, token, user, password>>))

\* a b210_nuc_pair that gives the node the interface of a base-station node
otalab_b210_nuc_pair_with_interface(req, i, b210_node, p) ==
    LET node0 == [NewRawPC(b210_node.node_id \o "-b210") EXCEPT
                    !.component_id = b210_node.node_id,
                    !.disk_image = SRSLTE_IMG]
    IN  [req EXCEPT !.resources =
            Append(@, usrp_interface(otalab_b210_services(node0)))]

\* b210_nuc_pair(idx, b210_node) of the OTA lab profile
otalab_b210_nuc_pair(req, i, b210_node, p) ==
    LET node0 == [NewRawPC(b210_node.node_id \o "-b210") EXCEPT
                    !.component_id = b210_node.node_id,
                    !.disk_image = SRSLTE_IMG]
    IN  [req EXCEPT !.resources = Append(@, otalab_b210_services(node0))]

\* b210_nuc_pair(idx, b210_node, token, user, password) of the general profile
general_b210_nuc_pair(req, i, b210_node, p) ==
    LET agg_full_name == "urn:publicid:IDN+" \o b210_node.aggregate_id
                            \o ".powderwireless.net+authority+cm"
        node0 == [NewRawPC("b210-" \o b210_node.aggregate_id \o "-" \o "nuc2") EXCEPT
                    !.component_manager_id = agg_full_name,
                    !.component_id = "nuc2",
                    !.disk_image = UBUNTU_IMG]
    IN  [req EXCEPT !.resources =
            Append(@, general_b210_services(node0, p.token, p.user, p.password))]

(***************************************************************************)
(* The frequency checks of the OTA lab profile                             *)
(***************************************************************************)
\* a reportError that keeps only the first error of a run
reportError_first_only(errs, cond, perr) ==
    IF cond /\ errs = <<>> THEN Append(errs, perr) ELSE errs

\* portal.context.reportError(perr) when the condition of the if holds
reportError(errs, cond, perr) == IF cond THEN Append(errs, perr) ELSE errs

\* a band check that takes the edges of the band as outside it
out_of_band_exclusive(lo, hi) ==
    lo <= BAND_MIN \/ lo >= BAND_MAX \/ hi <= BAND_MIN \/ hi >= BAND_MAX

out_of_band(lo, hi) ==
    lo < BAND_MIN \/ lo > BAND_MAX \/ hi < BAND_MIN \/ hi > BAND_MAX

\* a separation check that only asks the maximum not to be below the minimum
too_close_below_only(lo, hi) == hi - lo < 0

too_close(lo, hi) == hi - lo < MIN_SEPARATION

\* the four if statements, in the order of the script
check_frequency_parameters(p) ==
    LET e1 == reportError(<<>>, out_of_band(p.ul_freq_min, p.ul_freq_max),
                          ParameterError(UL_BAND_MSG, UL_PAIR))
        e2 == reportError(e1, too_close(p.ul_freq_min, p.ul_freq_max),
                          ParameterError(SEPARATION_MSG, UL_PAIR))
        e3 == reportError(e2, out_of_band(p.dl_freq_min, p.dl_freq_max),
                          ParameterError(DL_BAND_MSG, DL_PAIR))
        e4 == reportError(e3, too_close(p.dl_freq_min, p.dl_freq_max),
                          ParameterError(SEPARATION_MSG, DL_PAIR))
    IN  e4

(***************************************************************************)
(* The run of a script                                                     *)
(***************************************************************************)
\* the declared defaults of the parameters
DefaultParams(prof) ==
    IF prof = "otalab"
    THEN [x310_pair_nodetype |-> "d430", x310_radios |-> <<>>, b210_nodes |-> <<>>,
          ul_freq_min |-> ULDEFLOFREQ, ul_freq_max |-> ULDEFHIFREQ,
          dl_freq_min |-> DLDEFLOFREQ, dl_freq_max |-> DLDEFHIFREQ]
    ELSE [x310_pair_nodetype |-> "d740", token |-> "", user |-> "", password |-> "",
          x310_radios |-> <<>>, b210_nodes |-> <<>>]

\* the parameter sets a user can submit
UserParams(prof) ==
    IF prof = "otalab"
    THEN { [x310_pair_nodetype |-> t, x310_radios |-> xs, b210_nodes |-> bs,
            ul_freq_min |-> f[1], ul_freq_max |-> f[2],
            dl_freq_min |-> f[3], dl_freq_max |-> f[4]] :
              t \in node_type, xs \in SelLists("radio_name", lab_x310_names),
              bs \in SelLists("node_id", ota_b210_names), f \in FreqInputs }
    ELSE { [x310_pair_nodetype |-> t, token |-> c[1], user |-> c[2], password |-> c[3],
            x310_radios |-> xs, b210_nodes |-> bs] :
              t \in node_type, c \in Credentials,
              xs \in SelLists("radio_name", rooftop_names),
              bs \in SelLists("aggregate_id", fixed_endpoint_aggregates) }

Init ==
    /\ profile \in Profiles
    /\ pc = "bind"
    /\ params = DefaultParams(profile)
    /\ errors = <<>>
    /\ request = EmptyRequest
    /\ idx = 0
    /\ output = <<>>

\* params = portal.context.bindParameters()
BindParameters ==
    /\ pc = "bind"
    /\ params' \in UserParams(profile)
    /\ pc' = IF profile = "otalab" THEN "check" ELSE "verify"
    /\ UNCHANGED <<profile, errors, request, idx, output>>

\* the frequency checks (OTA lab profile only)
CheckFrequencies ==
    /\ pc = "check"
    /\ errors' = check_frequency_parameters(params)
    /\ pc' = "verify"
    /\ UNCHANGED <<profile, params, request, idx, output>>

\* a verifyParameters that lets the run go on whatever was reported
VerifyParameters_no_halt ==
    /\ pc = "verify"
    /\ pc' = "make_request"
    /\ UNCHANGED <<profile, params, errors, request, idx, output>>

\* portal.context.verifyParameters(): with errors reported, the run ends here
VerifyParameters ==
    /\ pc = "verify"
    /\ pc' = IF Len(errors) > 0 THEN "exited" ELSE "make_request"
    /\ UNCHANGED <<profile, params, errors, request, idx, output>>

\* request = portal.context.makeRequestRSpec()
MakeRequestRSpec ==
    /\ pc = "make_request"
    /\ request' = EmptyRequest
    /\ idx' = 0
    /\ pc' = "x310_loop"
    /\ UNCHANGED <<profile, params, errors, output>>

\* an iteration that takes any selection of the list, not the next one
X310NodePair_any_selection ==
    /\ pc = "x310_loop"
    /\ idx < Len(params.x310_radios)
    /\ \E k \in 1..Len(params.x310_radios) :
          request' = IF profile = "otalab"
                     THEN otalab_x310_node_pair(request, idx, params.x310_radios[k], params)
                     ELSE general_x310_node_pair(request, idx, params.x310_radios[k], params)
    /\ idx' = idx + 1
    /\ UNCHANGED <<profile, pc, params, errors, output>>

\* one iteration of the loop over params.x310_radios
X310NodePair ==
    /\ pc = "x310_loop"
    /\ idx < Len(params.x310_radios)
    /\ request' = IF profile = "otalab"
                  THEN otalab_x310_node_pair(request, idx, params.x310_radios[idx + 1], params)
                  ELSE general_x310_node_pair(request, idx, params.x310_radios[idx + 1], params)
    /\ idx' = idx + 1
    /\ UNCHANGED <<profile, pc, params, errors, output>>

\* the loop over params.x310_radios is exhausted
X310LoopEnd ==
    /\ pc = "x310_loop"
    /\ idx = Len(params.x310_radios)
    /\ idx' = 0
    /\ pc' = "b210_loop"
    /\ UNCHANGED <<profile, params, errors, request, output>>

\* one iteration of the loop over params.b210_nodes
B210NucPair ==
    /\ pc = "b210_loop"
    /\ idx < Len(params.b210_nodes)
    /\ request' = IF profile = "otalab"
                  THEN otalab_b210_nuc_pair(request, idx, params.b210_nodes[idx + 1], params)
                  ELSE general_b210_nuc_pair(request, idx, params.b210_nodes[idx + 1], params)
    /\ idx' = idx + 1
    /\ UNCHANGED <<profile, pc, params, errors, output>>

\* the end of the loop over params.b210_nodes, with the printing next in
\* both profiles
B210LoopEnd_skips_spectrum ==
    /\ pc = "b210_loop"
    /\ idx = Len(params.b210_nodes)
    /\ idx' = 0
    /\ pc' = "print"
    /\ UNCHANGED <<profile, params, errors, request, output>>

\* the loop over params.b210_nodes is exhausted
B210LoopEnd ==
    /\ pc = "b210_loop"
    /\ idx = Len(params.b210_nodes)
    /\ idx' = 0
    /\ pc' = IF profile = "otalab" THEN "spectrum_ul" ELSE "print"
    /\ UNCHANGED <<profile, params, errors, request, output>>

\* request.requestSpectrum(params.ul_freq_min, params.ul_freq_max, 0)
RequestSpectrumUl ==
    /\ pc = "spectrum_ul"
    /\ request' = requestSpectrum(request, params.ul_freq_min, params.ul_freq_max, 0)
    /\ pc' = "spectrum_dl"
    /\ UNCHANGED <<profile, params, errors, idx, output>>

\* request.requestSpectrum(params.dl_freq_min, params.dl_freq_max, 0)
RequestSpectrumDl ==
    /\ pc = "spectrum_dl"
    /\ request' = requestSpectrum(request, params.dl_freq_min, params.dl_freq_max, 0)
    /\ pc' = "print"
    /\ UNCHANGED <<profile, params, errors, idx, output>>

\* a run that ends without printing the request
PrintRequestRSpec_skipped ==
    /\ pc = "print"
    /\ pc' = "done"
    /\ UNCHANGED <<profile, params, errors, request, idx, output>>

\* portal.context.printRequestRSpec(): the request is the output of the run
PrintRequestRSpec ==
    /\ pc = "print"
    /\ output' = Append(output, request)
    /\ pc' = "done"
    /\ UNCHANGED <<profile, params, errors, request, idx>>

Next ==
    \/ BindParameters
    \/ CheckFrequencies
    \/ VerifyParameters
    \/ MakeRequestRSpec
    \/ X310NodePair
    \/ X310LoopEnd
    \/ B210NucPair
    \/ B210LoopEnd
    \/ RequestSpectrumUl
    \/ RequestSpectrumDl
    \/ PrintRequestRSpec

Spec == Init /\ [][Next]_vars

\* the script is run again and bindParameters returns the values of the run
\* before: everything the script holds starts afresh, and what the runs
\* printed is kept, one request after the other
Rerun ==
    /\ pc = "done"
    /\ Len(output) < MaxRuns
    /\ pc' = IF profile = "otalab" THEN "check" ELSE "verify"
    /\ errors' = <<>>
    /\ request' = EmptyRequest
    /\ idx' = 0
    /\ UNCHANGED <<profile, params, output>>

NextRerun == Next \/ Rerun

\* runs repeated on the same parameter values
SpecRerun == Init /\ [][NextRerun]_vars

(***************************************************************************)
(* Properties                                                              *)
(***************************************************************************)
\* the frequency checks of the OTA lab profile have run
FrequenciesChecked == profile = "otalab" /\ pc \notin {"bind", "check"}

\* the run got past verifyParameters
Verified == pc \notin {"bind", "check", "verify", "exited"}

InBand(f) == 3358 * MHz <= f /\ f <= 3600 * MHz
Separated(lo, hi) == hi - lo >= 1 * MHz

UlBandViolation == ~(InBand(params.ul_freq_min) /\ InBand(params.ul_freq_max))
DlBandViolation == ~(InBand(params.dl_freq_min) /\ InBand(params.dl_freq_max))
UlSeparationViolation == ~Separated(params.ul_freq_min, params.ul_freq_max)
DlSeparationViolation == ~Separated(params.dl_freq_min, params.dl_freq_max)

Reported(message, names) ==
    \E k \in 1..Len(errors) : errors[k] = [message |-> message, params |-> names]
ReportedTimes(message, names) ==
    Cardinality({k \in 1..Len(errors) :
                    errors[k] = [message |-> message, params |-> names]})

\* C1: in the OTA lab profile, when the four frequencies lie within [3358, 3600]
\* and each maximum is at least 1 MHz above its minimum, the checks report no
\* error and verification does not end the run.
C1_ValidFrequenciesPass ==
    ( /\ FrequenciesChecked
      /\ ~UlBandViolation /\ ~DlBandViolation
      /\ ~UlSeparationViolation /\ ~DlSeparationViolation )
    => (errors = <<>> /\ pc # "exited")

\* a run with frequencies at both edges of the band and a separation of exactly
\* 1 MHz that got past verification
C1_Witness ==
    /\ profile = "otalab" /\ pc = "make_request"
    /\ params.ul_freq_min = 3358 * MHz /\ params.ul_freq_max = 3359 * MHz
    /\ params.dl_freq_min = 3358 * MHz /\ params.dl_freq_max = 3600 * MHz

\* C2: in the OTA lab profile every violated rule is reported, once, with the
\* pair it is about, whatever the other pair does: an error names the uplink
\* pair exactly when the uplink pair violates a rule, and likewise the downlink
\* pair; and with any violation the run does not get past verification.
C2_ViolationsReportedPerPair ==
    FrequenciesChecked =>
        /\ ReportedTimes(UL_BAND_MSG, UL_PAIR) = (IF UlBandViolation THEN 1 ELSE 0)
        /\ ReportedTimes(SEPARATION_MSG, UL_PAIR) = (IF UlSeparationViolation THEN 1 ELSE 0)
        /\ ReportedTimes(DL_BAND_MSG, DL_PAIR) = (IF DlBandViolation THEN 1 ELSE 0)
        /\ ReportedTimes(SEPARATION_MSG, DL_PAIR) = (IF DlSeparationViolation THEN 1 ELSE 0)
        /\ \A k \in 1..Len(errors) : errors[k].params \in {UL_PAIR, DL_PAIR}
        /\ ( UlBandViolation \/ UlSeparationViolation
               \/ DlBandViolation \/ DlSeparationViolation ) => ~Verified

\* a run ended by verification with a violation reported on each pair
C2_Witness ==
    /\ profile = "otalab" /\ pc = "exited"
    /\ UlSeparationViolation /\ ~UlBandViolation /\ DlBandViolation
    /\ Reported(SEPARATION_MSG, UL_PAIR)
    /\ Reported(DL_BAND_MSG, DL_PAIR)

\* C3: once an error has been reported the run ends at verification: nothing is
\* added to a request and nothing is printed; with ul_freq_min = 3550 and
\* ul_freq_max = 3550.5 the separation error on the uplink pair is reported.
C3_ErrorsHaltBeforeRequest ==
    /\ errors # <<>> =>
          /\ pc \in {"verify", "exited"}
          /\ request = EmptyRequest
          /\ output = <<>>
    /\ ( /\ FrequenciesChecked
         /\ params.ul_freq_min = 3550 * MHz
         /\ params.ul_freq_max = 3550 * MHz + 500 )
       => (Reported(SEPARATION_MSG, UL_PAIR) /\ output = <<>> /\ ~Verified)

\* the run of scenario 2, ended by verification
C3_Witness ==
    /\ profile = "otalab" /\ pc = "exited"
    /\ params.ul_freq_min = 3550 * MHz /\ params.ul_freq_max = 3550 * MHz + 500
    /\ errors = <<[message |-> SEPARATION_MSG, params |-> UL_PAIR]>>
    /\ Len(params.x310_radios) > 0
    /\ request = EmptyRequest /\ output = <<>>

\* the resources of the request, and where those of a shape are
Res == request.resources
IsLink(r) == r.kind = "Link"
IsRawPC(r) == r.kind = "RawPC"
\* a base-station compute node: a node with a hardware type
IsCompute(r) == IsRawPC(r) /\ r.hardware_type # "None"
\* a radio component: a node with a component id and neither image nor services
IsRadioComponent(r) ==
    IsRawPC(r) /\ r.disk_image = "None" /\ r.services = <<>> /\ r.component_id # "None"
\* a fixed-endpoint node: a node with an image and no hardware type
IsFixedEndpoint(r) == IsRawPC(r) /\ r.hardware_type = "None" /\ r.disk_image # "None"

LinkPos == {k \in 1..Len(Res) : IsLink(Res[k])}
ComputePos == {k \in 1..Len(Res) : IsCompute(Res[k])}
RadioPos == {k \in 1..Len(Res) : IsRadioComponent(Res[k])}
FixedEndpointPos == {k \in 1..Len(Res) : IsFixedEndpoint(Res[k])}

\* the nodes the interfaces of the link at position l belong to
EndNodes(l) == {Res[l].interfaces[k].node : k \in 1..Len(Res[l].interfaces)}
LinksOf(n) == {l \in LinkPos : n \in EndNodes(l)}

\* how many base-station selections and fixed-endpoint selections are built
X310Built ==
    IF pc = "x310_loop" THEN idx
    ELSE IF Verified /\ pc # "make_request" THEN Len(params.x310_radios) ELSE 0
B210Built ==
    IF pc = "b210_loop" THEN idx
    ELSE IF pc \in {"spectrum_ul", "spectrum_dl", "print", "done"}
         THEN Len(params.b210_nodes) ELSE 0

\* C4: with N base-station selections built, the request holds N compute nodes,
\* N radio components and N links; the i-th link is named radio-link-i and has
\* exactly two interfaces, usrp_if of the compute node of the i-th selection and
\* one of the radio component of the i-th selection; every radio component and
\* every compute node is on exactly one link.
C4_BaseStationTriples ==
    LET links == SelectSeq(Res, IsLink)
    IN  /\ Cardinality(ComputePos) = X310Built
        /\ Cardinality(RadioPos) = X310Built
        /\ Len(links) = X310Built
        /\ \A i \in 0..(X310Built - 1) :
              LET l == links[i + 1]
                  name == params.x310_radios[i + 1].radio_name
              IN  /\ l.client_id = "radio-link-" \o ToString(i)
                  /\ Len(l.interfaces) = 2
                  /\ LET a == l.interfaces[1]
                         b == l.interfaces[2]
                     IN  /\ IsCompute(Res[a.node])
                         /\ Res[a.node].client_id = name \o "-comp"
                         /\ Res[a.node].interfaces[a.intf].name
                               = name \o "-comp:usrp_if"
                         /\ IsRadioComponent(Res[b.node])
                         /\ Res[b.node].component_id = name
        /\ \A n \in RadioPos \cup ComputePos : Cardinality(LinksOf(n)) = 1
        /\ \A l \in LinkPos :
              /\ Cardinality(EndNodes(l) \cap ComputePos) = 1
              /\ Cardinality(EndNodes(l) \cap RadioPos) = 1

\* two base-station pairs and a fixed-endpoint node are built
C4_Witness ==
    /\ pc = "print"
    /\ Len(params.x310_radios) = 2 /\ Len(params.b210_nodes) = 1
    /\ params.x310_radios[1] # params.x310_radios[2]
    /\ Cardinality(LinkPos) = 2 /\ Cardinality(RadioPos) = 2

\* the names of the nodes of a request are pairwise distinct
NodeNamesDistinct(req) ==
    \A j, k \in 1..Len(req.resources) :
        ( /\ j # k
          /\ IsRawPC(req.resources[j])
          /\ IsRawPC(req.resources[k]) )
        => req.resources[j].client_id # req.resources[k].client_id

\* C5: every node name of a request is unique: whatever the selections, a
\* request that is printed has pairwise distinct node names (a duplicate ends
\* the run before anything is printed).
C5_NodeNamesUniqueOrNoRequest ==
    \A k \in 1..Len(output) : NodeNamesDistinct(output[k])

Finished == pc \in {"done", "exited"}
OneOfEach == Len(params.x310_radios) = 1 /\ Len(params.b210_nodes) = 1
CountIn(req, P(_)) ==
    Cardinality({k \in 1..Len(req.resources) : P(req.resources[k])})

\* the run printed one request: a base-station triple, a fixed-endpoint node and
\* the spectrum reservations sp, nothing else
PrintedOneOfEach(sp) ==
    /\ pc = "done"
    /\ Len(output) = 1
    /\ Len(output[1].resources) = 4
    /\ CountIn(output[1], IsLink) = 1
    /\ CountIn(output[1], IsCompute) = 1
    /\ CountIn(output[1], IsRadioComponent) = 1
    /\ CountIn(output[1], IsFixedEndpoint) = 1
    /\ output[1].spectrum = sp

Scenario1Frequencies ==
    /\ profile = "otalab"
    /\ params.ul_freq_min = 2500 * MHz /\ params.ul_freq_max = 2510 * MHz
    /\ params.dl_freq_min = 2620 * MHz /\ params.dl_freq_max = 2630 * MHz

Commands(r) == [k \in 1..Len(r.services) |-> r.services[k].command]
\* the scripts of the services of a node, in order
Scripts(r) == [k \in 1..Len(r.services) |-> r.services[k].command[1]]

\* C7, as stated: the services of every base-station compute node are network
\* setup, CPU tuning, SDR interface tuning, deployment, in this order.
C7_FourActionSequence ==
    \A n \in ComputePos :
        Scripts(Res[n]) \in
            { <<"/local/repository/bin/add-nat-and-ip-forwarding.sh",
                "/local/repository/bin/tune-cpu.sh",
                "/local/repository/bin/tune-sdr-iface.sh",
                "/local/repository/bin/deploy-srs.sh">>,
              <<"/local/repository/bin/add-nat-and-ip-forwarding.sh",
                "/local/repository/bin/tune-cpu.sh",
                "/local/repository/bin/tune-sdr-iface.sh",
                "/local/repository/bin/setup.sh">> }

\* C7, amended: the services of every base-station compute node are, in the OTA
\* lab profile, network setup, CPU tuning, SDR interface tuning, deploy-srs.sh
\* <hash>, and in the general profile network setup, config sync
\* (update-config-files.sh), CPU tuning, SDR interface tuning, setup.sh <token>
\* <user> <password>: the same sequence for every selection, the deployment last.
C7_ServiceSequencePerProfile ==
    \A n \in ComputePos :
        /\ \A k \in 1..Len(Res[n].services) : Res[n].services[k].shell = "bash"
        /\ profile = "otalab" =>
              Commands(Res[n]) =
                << <<"/local/repository/bin/add-nat-and-ip-forwarding.sh">>,
                   <<"/local/repository/bin/tune-cpu.sh">>,
                   <<"/local/repository/bin/tune-sdr-iface.sh">>,
                   <<"/local/repository/bin/deploy-srs.sh", "release_22_04">> >>
        /\ profile = "general" =>
              Commands(Res[n]) =
                << <<"/local/repository/bin/add-nat-and-ip-forwarding.sh">>,
                   <<"/local/repository/bin/update-config-files.sh">>,
                   <<"/local/repository/bin/tune-cpu.sh">>,
                   <<"/local/repository/bin/tune-sdr-iface.sh">>,
                   <<"/local/repository/bin/setup.sh",
                     params.token, params.user, params.password>> >>

\* two base-station compute nodes of the general profile, printed
C7_Witness ==
    /\ profile = "general" /\ pc = "done"
    /\ Cardinality(ComputePos) = 2
    /\ params.token # ""

\* C8: with M fixed-endpoint selections built the request holds M fixed-endpoint
\* nodes and nothing else but the base-station triples; the j-th is named from
\* the identifier of the j-th selection, has a disk image, the services config
\* sync, CPU tuning, deployment in this order, and no interface (so no address);
\* the links are those of the base-station pairs and none ends at such a node.
C8_FixedEndpointNodes ==
    LET fe == SelectSeq(Res, IsFixedEndpoint)
    IN  /\ Len(fe) = B210Built
        /\ Len(Res) = 3 * X310Built + B210Built
        /\ Cardinality(LinkPos) = X310Built
        /\ \A l \in LinkPos : EndNodes(l) \cap FixedEndpointPos = {}
        /\ \A j \in 1..B210Built :
              /\ fe[j].client_id =
                    (IF profile = "otalab"
                     THEN params.b210_nodes[j].node_id \o "-b210"
                     ELSE "b210-" \o params.b210_nodes[j].aggregate_id \o "-nuc2")
              /\ fe[j].disk_image # "None"
              /\ fe[j].interfaces = <<>>
              /\ Commands(fe[j]) =
                    << <<"/local/repository/bin/update-config-files.sh">>,
                       <<"/local/repository/bin/tune-cpu.sh">>,
                       (IF profile = "otalab"
                        THEN <<"/local/repository/bin/deploy-srs.sh", "release_22_04">>
                        ELSE <<"/local/repository/bin/setup.sh",
                               params.token, params.user, params.password>>) >>

\* two fixed-endpoint nodes built after a base-station pair, OTA lab profile
C8_Witness ==
    /\ profile = "otalab" /\ pc = "spectrum_ul"
    /\ Len(params.x310_radios) = 1 /\ Len(params.b210_nodes) = 2
    /\ Cardinality(FixedEndpointPos) = 2 /\ Cardinality(LinkPos) = 1

NoSelections == Len(params.x310_radios) = 0 /\ Len(params.b210_nodes) = 0

\* C9: with no selection of either kind the request never holds a resource, no
\* run with parameters that pass the checks is ended by verification, and a
\* finished run has printed one request with no resources and only the spectrum
\* reservations (two in the OTA lab profile, none in the general profile).
C9_NoSelectionsOnlySpectrum ==
    NoSelections =>
        /\ Res = <<>>
        /\ ( \/ profile = "general"
             \/ ( /\ ~UlBandViolation /\ ~DlBandViolation
                  /\ ~UlSeparationViolation /\ ~DlSeparationViolation ) )
           => pc # "exited"
        /\ pc = "done" =>
              output = << [resources |-> <<>>,
                           spectrum |->
                             IF profile = "otalab"
                             THEN << <<params.ul_freq_min, params.ul_freq_max, 0>>,
                                     <<params.dl_freq_min, params.dl_freq_max, 0>> >>
                             ELSE <<>>] >>

\* a finished OTA lab run without selections
C9_Witness ==
    /\ profile = "otalab" /\ pc = "done" /\ NoSelections
    /\ Len(output) = 1
    /\ output[1].resources = <<>> /\ Len(output[1].spectrum) = 2

\* the interfaces of the link at position l that carry the address a
Carrying(l, a) ==
    {k \in 1..Len(Res[l].interfaces) :
        LET e == Res[l].interfaces[k]
            addrs == Res[e.node].interfaces[e.intf].addresses
        IN  \E m \in 1..Len(addrs) : addrs[m].address = a}

\* C10: every base-station compute node has exactly one interface, usrp_if, with
\* the single address 192.168.40.1 and netmask 255.255.255.0; every link has
\* bandwidth 10000000; no link has two interfaces with the address 192.168.40.1.
C10_UsrpInterfaceAndBandwidth ==
    /\ \A n \in ComputePos :
          Res[n].interfaces =
            << [name |-> Res[n].client_id \o ":usrp_if",
                addresses |-> << [address |-> "192.168.40.1",
                                  netmask |-> "255.255.255.0"] >>] >>
    /\ \A l \in LinkPos :
          /\ Res[l].bandwidth = 10000000
          /\ Cardinality(Carrying(l, "192.168.40.1")) <= 1

\* two base-station pairs with d430 compute nodes, each link with the address once
C10_Witness ==
    /\ pc = "done" /\ params.x310_pair_nodetype = "d430"
    /\ Cardinality(ComputePos) = 2 /\ Cardinality(LinkPos) = 2
    /\ \A l \in LinkPos : Cardinality(Carrying(l, "192.168.40.1")) = 1

FollowingStep(p) ==
    CASE p = "bind" -> IF profile = "otalab" THEN "check" ELSE "verify"
      [] p = "check" -> "verify"
      [] p = "verify" -> "make_request"
      [] p = "make_request" -> "x310_loop"
      [] p = "x310_loop" -> "b210_loop"
      [] p = "b210_loop" -> IF profile = "otalab" THEN "spectrum_ul" ELSE "print"
      [] p = "spectrum_ul" -> "spectrum_dl"
      [] p = "spectrum_dl" -> "print"
      [] p = "print" -> "done"
      [] OTHER -> "none"

\* a step of a run, as the single pass allows it
LinearStep ==
    \* the steps follow each other in the one order of the script; a step is
    \* repeated only by a loop, and verification alone can end the run early
    /\ \/ pc' = FollowingStep(pc)
       \/ pc' = pc /\ pc \in {"x310_loop", "b210_loop"} /\ idx' = idx + 1
       \/ pc = "verify" /\ pc' = "exited" /\ errors # <<>>
    \* the parameters are bound once, and the errors are reported before verification
    /\ pc # "bind" => params' = params
    /\ pc # "check" => errors' = errors
    \* an iteration of the first loop adds the pair of the next selection
    /\ (pc = "x310_loop" /\ pc' = pc) =>
          /\ idx < Len(params.x310_radios)
          /\ Len(request'.resources) = Len(Res) + 3
          /\ SubSeq(request'.resources, 1, Len(Res)) = Res
          /\ request'.resources[Len(Res) + 2].client_id
                = params.x310_radios[idx + 1].radio_name \o "-comp"
          /\ request'.resources[Len(Res) + 3].component_id
                = params.x310_radios[idx + 1].radio_name
    \* an iteration of the second loop adds the node of the next selection
    /\ (pc = "b210_loop" /\ pc' = pc) =>
          /\ idx < Len(params.b210_nodes)
          /\ Len(request'.resources) = Len(Res) + 1
          /\ SubSeq(request'.resources, 1, Len(Res)) = Res
          /\ request'.resources[Len(Res) + 1].client_id
                = (IF profile = "otalab"
                   THEN params.b210_nodes[idx + 1].node_id \o "-b210"
                   ELSE "b210-" \o params.b210_nodes[idx + 1].aggregate_id \o "-nuc2")
    \* a loop is left when its list is exhausted
    /\ (pc = "x310_loop" /\ pc' # pc) => idx = Len(params.x310_radios)
    /\ (pc = "b210_loop" /\ pc' # pc) => idx = Len(params.b210_nodes)
    \* the request changes in the loops and in the spectrum steps only, and the
    \* reservations are attached after the loops
    /\ request' # request =>
          pc \in {"x310_loop", "b210_loop", "spectrum_ul", "spectrum_dl"}
    /\ request'.spectrum # request.spectrum =>
          (profile = "otalab" /\ pc \in {"spectrum_ul", "spectrum_dl"})
    \* the request is printed once, by the last step, complete and as it stays
    /\ output' # output =>
          /\ pc = "print" /\ pc' = "done"
          /\ output = <<>>
          /\ Len(Res) = 3 * Len(params.x310_radios) + Len(params.b210_nodes)
          /\ Len(request.spectrum) = (IF profile = "otalab" THEN 2 ELSE 0)
    /\ output' # <<>> => (pc' = "done" /\ output' = <<request'>>)
    /\ pc \in {"done", "exited"} => (request' = request /\ output' = output)

\* C12: a run is one linear pass: bind, (OTA lab) check, verify, make the
\* request, the base-station pairs in list order, the fixed-endpoint nodes in
\* list order, (OTA lab) the two reservations, print; the request is printed at
\* most once, after the last builder call, and is what the run holds from then on.
C12_LinearSinglePass == [][LinearStep]_vars

\* a finished OTA lab run that built two pairs and two fixed-endpoint nodes
C12_Witness ==
    /\ profile = "otalab" /\ pc = "done"
    /\ Len(params.x310_radios) = 2 /\ Len(params.b210_nodes) = 2
    /\ output = <<request>>
    /\ Len(Res) = 8 /\ Len(request.spectrum) = 2

====
